---- MODULE Spec2Model ----
(***************************************************************************)
(* Model of the WeChat webhook bridge in main.go: the POST /wx handler     *)
(* (handleMessage), the background goroutine (fetchDeepSeekResponse), the  *)
(* completion client (callDeepSeek), the process-wide sync.Map             *)
(* userResponses they share, and the GET /wx handshake (checkSignature).   *)
(*                                                                         *)
(* Strings that the code inspects character by character (msg.Content,     *)
(* through strings.TrimSpace) are sequences of one-character strings; the  *)
(* keyword is written <<"ji","xu">> for its two runes.  Fixed reply texts   *)
(* are distinct string constants.                                          *)
(*                                                                         *)
(* Fields and variables marked "ghost" are not program state: they record  *)
(* which goroutine's Store produced a value, so that claims about          *)
(* "the value stored by task t" can be stated.                             *)
(***************************************************************************)
EXTENDS Integers, Sequences, FiniteSets

\* ------------------------------------------------------------------ bounds
\* goroutine ids in use at once (running, or ended with the value still around)
MaxTasks == 2

\* requests being handled at once
Handlers == {1, 2}

TaskIds == 1..MaxTasks
Senders == {"a", "b"}

\* ------------------------------------------------------ fixed reply texts
Greeting == "greeting"
EventAck == "event-received-not-handled"
NoPending == "nothing-pending"
Placeholder == "processing-reply-continue"
Unsupported == "unsupported-content"
FailMsg == "deepseek-failed-retry-later"
NoResp == "no-response-from-deepseek"
BadRequestText == "Bad Request"

StatusOK == 200
StatusBadRequest == 400
StatusForbidden == 403
ForbiddenText == "Forbidden"

None == "none"

\* ----------------------------------------------------------------- strings
Keyword == <<"ji", "xu">>

IsSpace(ch) == ch \in {" ", "\t", "\n", "\r"}

RECURSIVE TrimLeft(_)
TrimLeft(s) ==
  IF s = <<>> THEN s
  ELSE IF IsSpace(Head(s)) THEN TrimLeft(Tail(s)) ELSE s

RECURSIVE TrimRight(_)
TrimRight(s) ==
  IF s = <<>> THEN s
  ELSE IF IsSpace(s[Len(s)]) THEN TrimRight(SubSeq(s, 1, Len(s) - 1)) ELSE s

TrimSpace(s) == TrimRight(TrimLeft(s))

\* a comparison with the keyword that does not trim
IsContinue_Untrimmed(content) == content = Keyword

IsContinue(content) == TrimSpace(content) = Keyword

\* ---------------------------------------------------------------- messages
Contents ==
  { Keyword,
    <<" ", "ji", "xu", "\n">>,
    <<"ji", " ", "xu", " ">> }

WeChatMessage(from, type, event, content) ==
  [FromUserName |-> from, MsgType |-> type, Event |-> event, Content |-> content]

Messages ==
  { WeChatMessage(s, "event", e, <<>>) : s \in Senders, e \in {"subscribe", "unsubscribe"} }
  \cup { WeChatMessage(s, "text", "", c) : s \in Senders, c \in Contents }
  \cup { WeChatMessage(s, "image", e, <<>>) : s \in Senders, e \in {"", "subscribe"} }

NoMsg == WeChatMessage(None, None, "", <<>>)

\* ------------------------------------------------------- completion client
\* What the upstream does with the one request callDeepSeek makes:
\* http.NewRequest fails, client.Do fails, the body is not JSON, or the body
\* is JSON with a list of choices.
Upstream ==
  { [kind |-> k, choices |-> <<>>] : k \in {"requestErr", "transportErr", "badJson"} }
  \cup { [kind |-> "json", choices |-> cs] : cs \in {<<>>, <<"A">>, <<"A", "B">>} }

\* a client that reports an answer without choices as an error
callDeepSeek_NoChoiceIsError(query, up) ==
  IF up.kind \in {"requestErr", "transportErr", "badJson"} THEN [text |-> "", err |-> TRUE]
  ELSE IF Len(up.choices) > 0 THEN [text |-> up.choices[1], err |-> FALSE]
  ELSE [text |-> "", err |-> TRUE]

callDeepSeek(query, up) ==
  IF up.kind = "requestErr" THEN [text |-> "", err |-> TRUE]
  ELSE IF up.kind = "transportErr" THEN [text |-> "", err |-> TRUE]
  ELSE IF up.kind = "badJson" THEN [text |-> "", err |-> TRUE]
  ELSE IF Len(up.choices) > 0 THEN [text |-> up.choices[1], err |-> FALSE]
  ELSE [text |-> NoResp, err |-> FALSE]

\* ---------------------------------------------------------- checkSignature
\* Query parameters and the token are sequences of one-character strings.
\* Go compares strings byte by byte; Bytes lists the characters in use in
\* byte order.
Bytes == <<"1", "2", "a", "b", "t">>

Ord(ch) == CHOOSE i \in 1..Len(Bytes) : Bytes[i] = ch

RECURSIVE StrLess(_, _)
StrLess(s, t) ==
  IF t = <<>> THEN FALSE
  ELSE IF s = <<>> THEN TRUE
  ELSE IF Head(s) = Head(t) THEN StrLess(Tail(s), Tail(t))
  ELSE Ord(Head(s)) < Ord(Head(t))

RECURSIVE InsertSorted(_, _)
InsertSorted(x, sorted) ==
  IF sorted = <<>> THEN <<x>>
  ELSE IF StrLess(Head(sorted), x)
    THEN <<Head(sorted)>> \o InsertSorted(x, Tail(sorted))
    ELSE <<x>> \o sorted

\* a sort that leaves the slice as it is
SortStrings_Keeps(strs) == strs

\* sort.Strings
RECURSIVE SortStrings(_)
SortStrings(strs) ==
  IF strs = <<>> THEN <<>>
  ELSE InsertSorted(Head(strs), SortStrings(Tail(strs)))

\* strings.Join(strs, "")
RECURSIVE Join(_)
Join(strs) == IF strs = <<>> THEN <<>> ELSE Head(strs) \o Join(Tail(strs))

\* fmt.Sprintf("%x", sha1(s)): the digest is kept abstract, a string that
\* names its input and is no input itself
Sha1Hex(s) == <<"sha1">> \o s

checkSignature(token, signature, timestamp, nonce) ==
  IF token = <<>> \/ timestamp = <<>> \/ nonce = <<>> THEN FALSE
  ELSE Sha1Hex(Join(SortStrings(<<token, timestamp, nonce>>))) = signature

\* wechat.token of config.yaml (empty: not configured) and the query
\* parameters of GET /wx
Tokens == { <<>>, <<"t">>, <<"b">> }
Timestamps == { <<>>, <<"1">> }
Nonces == { <<>>, <<"a">>, <<"1", "2">> }
Echos == { "echo-1", "echo-2" }

\* signatures a caller may send: none, the digest of the strings in the
\* order token, timestamp, nonce, and the digest of the sorted strings
Signatures ==
  { <<>> }
  \cup { Sha1Hex(Join(<<k, ts, n>>)) : k \in Tokens, ts \in Timestamps, n \in Nonces }
  \cup { Sha1Hex(Join(SortStrings(<<k, ts, n>>))) :
           k \in Tokens, ts \in Timestamps, n \in Nonces }

\* ------------------------------------------------- userResponses (sync.Map)
\* The map is a set of entries [key, value, by]; "by" is a ghost tag naming
\* the task whose Store wrote the entry.
HasKey(m, k) == \E e \in m : e.key = k

Entry(m, k) == CHOOSE e \in m : e.key = k

\* a Load that looks under a key no Store ever uses
Load_NeverFinds(m, k) == [ok |-> FALSE, value |-> None, by |-> 0]

Load(m, k) ==
  IF HasKey(m, k)
    THEN [ok |-> TRUE, value |-> Entry(m, k).value, by |-> Entry(m, k).by]
    ELSE [ok |-> FALSE, value |-> None, by |-> 0]

\* a Store that keeps an entry that is already there (LoadOrStore)
Store_KeepsFirst(m, k, v, t) ==
  IF \E e \in m : e.key = k THEN m ELSE m \cup { [key |-> k, value |-> v, by |-> t] }

Store(m, k, v, t) ==
  { e \in m : e.key # k } \cup { [key |-> k, value |-> v, by |-> t] }

\* a Delete that empties the map
Delete_All(m, k) == {}

\* a Delete that removes nothing
Delete_Keeps(m, k) == m

Delete(m, k) == { e \in m : e.key # k }

\* -------------------------------------------------------------------- state
VARIABLES
  userResponses,  \* the sync.Map
  tasks,          \* goroutines started by "go fetchDeepSeekResponse", by id
  hs,             \* request handlers: position and locals of each
  out,            \* the HTTP response written by the last step (NoOut: none)
  pending,        \* ghost: per sender, a Store happened since the last read-and-clear
  get,            \* GET /wx: the configured token, the last query and its response
  upstream        \* the outcome the completion endpoint is pinned to (None: not pinned)

vars == <<userResponses, tasks, hs, out, pending, get, upstream>>

\* A goroutine id is in use from "go ..." until the goroutine has ended and
\* the value it stored is gone from the map and from every handler.  Of an
\* ended goroutine the record keeps what it did (ghost: response, err,
\* stores) and whether its value was handed out (ghost: delivered).
FreeTask ==
  [pc |-> "free", user |-> None, query |-> <<>>, response |-> None,
   err |-> FALSE, stores |-> 0, delivered |-> FALSE]

NewTask(user, query) ==
  [pc |-> "calling", user |-> user, query |-> query, response |-> None,
   err |-> FALSE, stores |-> 0, delivered |-> FALSE]

IdleHandler == [pc |-> "idle", msg |-> NoMsg, cached |-> None, by |-> 0, task |-> 0]

\* "bad" marks a request whose body did not parse (there is no message then)
NoOut == [bad |-> FALSE, req |-> NoMsg, status |-> 0, text |-> None, by |-> 0, task |-> 0]

\* the response written by c.Data / c.String
Respond(bad, req, status, text, by, task) ==
  [bad |-> bad, req |-> req, status |-> status, text |-> text, by |-> by, task |-> task]

\* a new request is served by the first free handler
Free(h) == hs[h].pc = "idle" /\ \A g \in Handlers : g < h => hs[g].pc # "idle"

\* the value stored by goroutine t is still somewhere, or the handler that
\* started t has not replied yet
Referenced(t, m, H) ==
  \/ \E e \in m : e.by = t
  \/ \E h \in Handlers : H[h].pc = "loaded" /\ H[h].by = t
  \/ \E h \in Handlers : H[h].pc = "sleeping" /\ H[h].task = t

\* ghost bookkeeping: ids of ended goroutines nothing refers to are released
Release(tk, m, H) ==
  [t \in TaskIds |->
     IF tk[t].pc = "done" /\ ~Referenced(t, m, H) THEN FreeTask ELSE tk[t]]

FreeId(t) == tasks[t].pc = "free" /\ \A u \in TaskIds : u < t => tasks[u].pc # "free"

\* no handshake yet
NoGet ==
  [token |-> None, signature |-> None, timestamp |-> None, nonce |-> None,
   echostr |-> None, status |-> 0, body |-> None]

\* the server as r.Run leaves it: an empty map, no request, no goroutine
Started ==
  /\ userResponses = {}
  /\ tasks = [t \in TaskIds |-> FreeTask]
  /\ hs = [h \in Handlers |-> IdleHandler]
  /\ out = NoOut
  /\ pending = [s \in Senders |-> FALSE]

Init ==
  /\ Started
  /\ get = NoGet
  /\ upstream = None

\* ----------------------------------------------------------- handleMessage
\* a handler that goes on with the zero message after a failed bind and
\* answers from the default branch
HandleBadRequest_GoesOn(h) ==
  /\ Free(h)
  /\ out' = Respond(TRUE, NoMsg, StatusOK, Unsupported, 0, 0)
  /\ UNCHANGED <<userResponses, tasks, hs, pending, get, upstream>>

\* ShouldBindXML fails: 400, nothing else happens.
HandleBadRequest(h) ==
  /\ Free(h)
  /\ out' = Respond(TRUE, NoMsg, StatusBadRequest, BadRequestText, 0, 0)
  /\ UNCHANGED <<userResponses, tasks, hs, pending, get, upstream>>

\* an event branch that does not look at msg.Event
EventResponse_AlwaysGreets(msg) == Greeting

EventResponse(msg) ==
  IF msg.Event = "subscribe" THEN Greeting ELSE EventAck

\* an event branch that also drops the sender's entry
HandleEvent_Clears(h, msg) ==
  /\ Free(h)
  /\ msg.MsgType = "event"
  /\ out' = Respond(FALSE, msg, StatusOK, EventResponse(msg), 0, 0)
  /\ userResponses' = Delete(userResponses, msg.FromUserName)
  /\ UNCHANGED <<tasks, hs, pending, get, upstream>>

\* case "event"
HandleEvent(h, msg) ==
  /\ Free(h)
  /\ msg.MsgType = "event"
  /\ out' = Respond(FALSE, msg, StatusOK, EventResponse(msg), 0, 0)
  /\ UNCHANGED <<userResponses, tasks, hs, pending, get, upstream>>

\* default
HandleDefault(h, msg) ==
  /\ Free(h)
  /\ msg.MsgType \notin {"event", "text"}
  /\ out' = Respond(FALSE, msg, StatusOK, Unsupported, 0, 0)
  /\ UNCHANGED <<userResponses, tasks, hs, pending, get, upstream>>

\* case "text", keyword, Load finds nothing
ContinueMiss(h, msg) ==
  /\ Free(h)
  /\ msg.MsgType = "text"
  /\ IsContinue(msg.Content)
  /\ ~Load(userResponses, msg.FromUserName).ok
  /\ out' = Respond(FALSE, msg, StatusOK, NoPending, 0, 0)
  /\ pending' = [pending EXCEPT ![msg.FromUserName] = FALSE]
  /\ UNCHANGED <<userResponses, tasks, hs, get, upstream>>

\* case "text", keyword, Load finds an entry: the handler now holds the value
ContinueLoad(h, msg) ==
  /\ Free(h)
  /\ msg.MsgType = "text"
  /\ IsContinue(msg.Content)
  /\ LET l == Load(userResponses, msg.FromUserName)
     IN /\ l.ok
        /\ hs' = [hs EXCEPT ![h] = [pc |-> "loaded", msg |-> msg,
                                    cached |-> l.value, by |-> l.by, task |-> 0]]
  /\ out' = NoOut
  /\ UNCHANGED <<userResponses, tasks, pending, get, upstream>>

\* ... then Delete, and the reply carrying the loaded value
ContinueDelete(h) ==
  /\ hs[h].pc = "loaded"
  /\ userResponses' = Delete(userResponses, hs[h].msg.FromUserName)
  /\ out' = Respond(FALSE, hs[h].msg, StatusOK, hs[h].cached, hs[h].by, 0)
  /\ hs' = [hs EXCEPT ![h] = IdleHandler]
  /\ tasks' = Release([tasks EXCEPT ![hs[h].by].delivered = TRUE],
                      userResponses', hs')
  /\ pending' = [pending EXCEPT ![hs[h].msg.FromUserName] = FALSE]
  /\ UNCHANGED <<get, upstream>>

\* a question that first drops the answer to the sender's earlier question
Dispatch_DropsOld(h, msg) ==
  /\ Free(h)
  /\ msg.MsgType = "text"
  /\ ~IsContinue(msg.Content)
  /\ userResponses' = Delete(userResponses, msg.FromUserName)
  /\ \E t \in TaskIds :
       /\ FreeId(t)
       /\ hs' = [hs EXCEPT ![h] = [pc |-> "sleeping", msg |-> msg, cached |-> None,
                                   by |-> 0, task |-> t]]
       /\ tasks' = Release([tasks EXCEPT ![t] = NewTask(msg.FromUserName, msg.Content)],
                           userResponses', hs')
  /\ out' = NoOut
  /\ UNCHANGED <<pending, get, upstream>>

\* case "text", not the keyword: go fetchDeepSeekResponse(...), then time.Sleep
Dispatch(h, msg) ==
  /\ Free(h)
  /\ msg.MsgType = "text"
  /\ ~IsContinue(msg.Content)
  /\ \E t \in TaskIds :
       /\ FreeId(t)
       /\ tasks' = [tasks EXCEPT ![t] = NewTask(msg.FromUserName, msg.Content)]
       /\ hs' = [hs EXCEPT ![h] = [pc |-> "sleeping", msg |-> msg, cached |-> None,
                                   by |-> 0, task |-> t]]
  /\ out' = NoOut
  /\ UNCHANGED <<userResponses, pending, get, upstream>>

\* a reply that looks into the map after the sleep and returns the answer
\* when it has landed
DispatchReply_ShortCircuit(h) ==
  /\ hs[h].pc = "sleeping"
  /\ LET l == Load(userResponses, hs[h].msg.FromUserName)
     IN IF l.ok
          THEN /\ out' = Respond(FALSE, hs[h].msg, StatusOK, l.value, l.by, hs[h].task)
               /\ userResponses' = Delete(userResponses, hs[h].msg.FromUserName)
               /\ pending' = [pending EXCEPT ![hs[h].msg.FromUserName] = FALSE]
          ELSE /\ out' = Respond(FALSE, hs[h].msg, StatusOK, Placeholder, 0, hs[h].task)
               /\ UNCHANGED <<userResponses, pending>>
  /\ hs' = [hs EXCEPT ![h] = IdleHandler]
  /\ tasks' = Release(tasks, userResponses', hs')
  /\ UNCHANGED <<get, upstream>>

\* a handler that joins its goroutine before replying
DispatchReply_Joins(h) ==
  /\ hs[h].pc = "sleeping"
  /\ tasks[hs[h].task].pc = "done"
  /\ out' = Respond(FALSE, hs[h].msg, StatusOK, Placeholder, 0, hs[h].task)
  /\ hs' = [hs EXCEPT ![h] = IdleHandler]
  /\ tasks' = Release(tasks, userResponses, hs')
  /\ UNCHANGED <<userResponses, pending, get, upstream>>

\* the sleep is over: the placeholder reply
DispatchReply(h) ==
  /\ hs[h].pc = "sleeping"
  /\ out' = Respond(FALSE, hs[h].msg, StatusOK, Placeholder, 0, hs[h].task)
  /\ hs' = [hs EXCEPT ![h] = IdleHandler]
  /\ tasks' = Release(tasks, userResponses, hs')
  /\ UNCHANGED <<userResponses, pending, get, upstream>>

\* --------------------------------------------------- fetchDeepSeekResponse
\* a goroutine that stores what callDeepSeek returned even on error
fetchDeepSeekResponse_NoSubstitute(t, up) ==
  LET r == callDeepSeek(tasks[t].query, up)
  IN /\ userResponses' = Store(userResponses, tasks[t].user, r.text, t)
     /\ tasks' = Release([tasks EXCEPT ![t].pc = "done",
                                       ![t].response = r.text,
                                       ![t].err = r.err,
                                       ![t].stores = @ + 1],
                         userResponses', hs)

\* a goroutine that returns on error instead of storing the failure text
fetchDeepSeekResponse_DropsOnErr(t, up) ==
  LET r == callDeepSeek(tasks[t].query, up)
  IN IF r.err
       THEN /\ userResponses' = userResponses
            /\ tasks' = Release([tasks EXCEPT ![t].pc = "done", ![t].err = TRUE],
                                userResponses, hs)
       ELSE /\ userResponses' = Store(userResponses, tasks[t].user, r.text, t)
            /\ tasks' = Release([tasks EXCEPT ![t].pc = "done",
                                              ![t].response = r.text,
                                              ![t].stores = @ + 1],
                                userResponses', hs)

\* The goroutine: callDeepSeek returns, an error is replaced by the failure
\* text, and the result is stored.  Everything before the Store is local to
\* the goroutine, so the body is one step.
fetchDeepSeekResponse(t, up) ==
  LET r == callDeepSeek(tasks[t].query, up)
      response == IF r.err THEN FailMsg ELSE r.text
  IN /\ userResponses' = Store(userResponses, tasks[t].user, response, t)
     /\ tasks' = Release([tasks EXCEPT ![t].pc = "done",
                                       ![t].response = response,
                                       ![t].err = r.err,
                                       ![t].stores = @ + 1],
                         userResponses', hs)

TaskRun(t, up) ==
  /\ tasks[t].pc = "calling"
  /\ fetchDeepSeekResponse(t, up)
  /\ pending' = [pending EXCEPT ![tasks[t].user] = TRUE]
  /\ out' = NoOut
  /\ UNCHANGED <<hs, get, upstream>>

\* ------------------------------------------------------------------ GET /wx
\* r.GET("/wx", ...): the echo string when the signature checks, else 403
HandleGet(signature, timestamp, nonce, echostr) ==
  /\ get.token # None
  /\ get' = [token |-> get.token, signature |-> signature,
             timestamp |-> timestamp, nonce |-> nonce, echostr |-> echostr,
             status |-> IF checkSignature(get.token, signature, timestamp, nonce)
                          THEN StatusOK ELSE StatusForbidden,
             body |-> IF checkSignature(get.token, signature, timestamp, nonce)
                        THEN echostr ELSE ForbiddenText]
  /\ UNCHANGED <<userResponses, tasks, hs, out, pending, upstream>>

\* ---------------------------------------------------------- specification
Next ==
  \/ \E h \in Handlers : HandleBadRequest(h)
  \/ \E h \in Handlers, msg \in Messages : HandleEvent(h, msg)
  \/ \E h \in Handlers, msg \in Messages : HandleDefault(h, msg)
  \/ \E h \in Handlers, msg \in Messages : ContinueMiss(h, msg)
  \/ \E h \in Handlers, msg \in Messages : ContinueLoad(h, msg)
  \/ \E h \in Handlers : ContinueDelete(h)
  \/ \E h \in Handlers, msg \in Messages : Dispatch(h, msg)
  \/ \E h \in Handlers : DispatchReply(h)
  \/ \E t \in TaskIds, up \in Upstream : TaskRun(t, up)

Spec == Init /\ [][Next]_vars

\* The steps that touch the map or a goroutine: handleMessage's text branches
\* and the goroutines.  (The 400 reply, the event branch and the default
\* branch only write the response.)
TextNext ==
  \/ \E h \in Handlers, msg \in Messages : ContinueMiss(h, msg)
  \/ \E h \in Handlers, msg \in Messages : ContinueLoad(h, msg)
  \/ \E h \in Handlers : ContinueDelete(h)
  \/ \E h \in Handlers, msg \in Messages : Dispatch(h, msg)
  \/ \E h \in Handlers : DispatchReply(h)
  \/ \E t \in TaskIds, up \in Upstream : TaskRun(t, up)

\* Go schedules every goroutine, and the claim about a dispatched task
\* presupposes that its completion call returns (with text or with an error).
FairSpec ==
  /\ Init
  /\ [][TextNext]_vars
  /\ \A t \in TaskIds : WF_vars(\E up \in Upstream : TaskRun(t, up))

\* The handshake alone, for every configured token: initConfig has read
\* config.yaml, and GET /wx requests arrive.
SigInit ==
  /\ Started
  /\ get \in { [NoGet EXCEPT !.token = k] : k \in Tokens }
  /\ upstream = None

SigNext ==
  \E signature \in Signatures, timestamp \in Timestamps, nonce \in Nonces,
     echostr \in Echos : HandleGet(signature, timestamp, nonce, echostr)

SigSpec == SigInit /\ [][SigNext]_vars

\* A handler runs on its own goroutine and its steps (the timed sleep, the
\* map operations, writing the response) all return; nothing is assumed
\* about the completion call, which may never return.
HandlerFairSpec ==
  /\ Init
  /\ [][TextNext]_vars
  /\ \A h \in Handlers : WF_vars(DispatchReply(h)) /\ WF_vars(ContinueDelete(h))

\* Questions and their goroutines against an endpoint that treats every call
\* the same way, for each way it can: the stored value as a function of the
\* outcome of the call.
OutcomeInit ==
  /\ Started
  /\ get = NoGet
  /\ upstream \in Upstream

OutcomeNext ==
  \/ \E h \in Handlers, msg \in Messages : ContinueLoad(h, msg)
  \/ \E h \in Handlers : ContinueDelete(h)
  \/ \E h \in Handlers, msg \in Messages : Dispatch(h, msg)
  \/ \E h \in Handlers : DispatchReply(h)
  \/ \E t \in TaskIds : TaskRun(t, upstream)

OutcomeSpec == OutcomeInit /\ [][OutcomeNext]_vars

TypeOK ==
  /\ \A e \in userResponses : e.key \in Senders /\ e.by \in TaskIds
  /\ \A t \in TaskIds : tasks[t].pc \in {"free", "calling", "done"}
  /\ \A h \in Handlers : hs[h].pc \in {"idle", "loaded", "sleeping"}
  /\ out.status \in {0, StatusOK, StatusBadRequest}

\* ------------------------------------------------------------------ claims
\* What a request asks for, read off the message itself.
KeywordForms == { Keyword, <<" ", "ji", "xu", "\n">> }

AsksContinue(msg) == msg.MsgType = "text" /\ msg.Content \in KeywordForms

AsksQuestion(msg) == msg.MsgType = "text" /\ msg.Content \notin KeywordForms

EntriesOf(m, s) == { e \in m : e.key = s }

\* the step in which goroutine t ends
Ends(t) == tasks[t].pc = "calling" /\ tasks'[t].pc # "calling"

\* the step in which handler h takes a value out of the map
Takes(h) == hs[h].pc = "idle" /\ hs'[h].pc = "loaded"

\* the step in which handler h replies with the value it took
Hands(h) == hs[h].pc = "loaded" /\ hs'[h].pc = "idle"

\* C1: a value written by one Store is the reply to at most one "continue"
\* request: no reply carries a stored value that an earlier reply already
\* carried.
C1_DeliveredAtMostOnce ==
  [][out'.by # 0 => ~tasks[out'.by].delivered]_vars

\* C2: every dispatched task eventually ends (no task stays in its call
\* for ever), and the step in which it
\* ends performs exactly one Store for its sender, whether the completion
\* call returned text or an error; an ended task never has stored zero
\* times or more than once.
C2_ExactlyOneStore ==
  /\ \A t \in TaskIds : []<>(tasks[t].pc # "calling")
  /\ [][\A t \in TaskIds :
          Ends(t) =>
            /\ tasks'[t].pc = "done"
            /\ tasks'[t].stores = 1
            /\ [key |-> tasks[t].user, value |-> tasks'[t].response, by |-> t]
                 \in userResponses']_vars
  /\ [](\A t \in TaskIds :
          /\ tasks[t].stores <= 1
          /\ tasks[t].pc = "done" => tasks[t].stores = 1
          /\ tasks[t].pc = "calling" => tasks[t].stores = 0)

C2_Witness ==
  \E t \in TaskIds :
    /\ tasks[t].pc = "done" /\ tasks[t].err /\ tasks[t].stores = 1
    /\ \E e \in userResponses : e.by = t /\ e.key = tasks[t].user

\* C3: when no Store for sender S has happened since the last read-and-clear
\* for S (or since startup), the map has no entry for S, no "continue"
\* handler takes a value for S, and a "continue" request from S answered in
\* that step gets the fixed nothing-pending text.
C3_NoStoreNoEntry ==
  /\ [](\A s \in Senders : ~pending[s] => EntriesOf(userResponses, s) = {})
  /\ [][\A s \in Senders :
          ~pending[s] =>
            /\ \A h \in Handlers : Takes(h) => hs'[h].msg.FromUserName # s
            /\ (hs' = hs /\ AsksContinue(out'.req) /\ out'.req.FromUserName = s)
                 => out'.text = NoPending /\ out'.status = StatusOK]_vars

\* a "continue" from S answered nothing-pending right after S's answer was
\* handed out by another reply (the map was emptied, nothing stored since)
C3_Witness ==
  /\ AsksContinue(out.req)
  /\ out.text = NoPending
  /\ ~pending[out.req.FromUserName]
  /\ \E t \in TaskIds : tasks[t].pc = "done" /\ tasks[t].user = out.req.FromUserName
                        /\ tasks[t].delivered

\* no other handler is busy with sender s and no goroutine is running for s
Alone(h, s) ==
  /\ \A g \in Handlers : (g # h /\ hs[g].pc # "idle") => hs[g].msg.FromUserName # s
  /\ \A t \in TaskIds : tasks[t].pc = "calling" => tasks[t].user # s

\* a "continue" from sender s is answered nothing-pending in this step
Misses(s) ==
  /\ hs' = hs
  /\ AsksContinue(out'.req)
  /\ out'.req.FromUserName = s
  /\ out'.text = NoPending

\* C4: one sender, one question, then "continue" requests one after another:
\* the question is answered with the placeholder; once the task has stored
\* (and nothing else of this sender is under way) a "continue" is not
\* answered nothing-pending, the handler that takes the value replies with
\* exactly the text the task stored and leaves no entry behind; a "continue"
\* with nothing stored since is answered nothing-pending.
C4_QuestionThenContinue ==
  /\ [][AsksQuestion(out'.req) => out'.text = Placeholder /\ out'.status = StatusOK]_vars
  /\ [][\A s \in Senders : pending[s] => ~Misses(s)]_vars
  /\ [][\A h \in Handlers :
          (Hands(h) /\ Alone(h, hs[h].msg.FromUserName)) =>
            /\ out'.req = hs[h].msg
            /\ out'.status = StatusOK
            /\ tasks[hs[h].by].pc = "done"
            /\ tasks[hs[h].by].user = hs[h].msg.FromUserName
            /\ out'.text = tasks[hs[h].by].response
            /\ EntriesOf(userResponses', hs[h].msg.FromUserName) = {}
            /\ ~pending'[hs[h].msg.FromUserName]]_vars
  /\ [][\A s \in Senders :
          (~pending[s] /\ hs' = hs /\ AsksContinue(out'.req) /\ out'.req.FromUserName = s)
            => out'.text = NoPending]_vars

\* the answer "A" has just been handed to a sender with nothing else under way
C4_Witness ==
  /\ AsksContinue(out.req)
  /\ out.by # 0
  /\ out.text = "A"
  /\ EntriesOf(userResponses, out.req.FromUserName) = {}
  /\ \A h \in Handlers : hs[h].pc = "idle"
  /\ \A t \in TaskIds : tasks[t].pc = "free"

\* C5: when the completion call returns an error the task stores the fixed
\* failure text, every reply that hands out that task's value carries the
\* failure text, and every reply to a parsed message has status 200.
C5_ErrorBecomesFailureText ==
  /\ [](\A t \in TaskIds :
          (tasks[t].pc = "done" /\ tasks[t].err) => tasks[t].response = FailMsg)
  /\ [](\A e \in userResponses : tasks[e.by].err => e.value = FailMsg)
  /\ [][\A t \in TaskIds :
          (Ends(t) /\ tasks'[t].err) =>
            [key |-> tasks[t].user, value |-> FailMsg, by |-> t] \in userResponses']_vars
  /\ [][\A h \in Handlers :
          (Hands(h) /\ tasks[hs[h].by].err) =>
            out'.text = FailMsg /\ out'.status = StatusOK]_vars
  /\ [](out.req # NoMsg => out.status = StatusOK)

C5_Witness ==
  /\ AsksContinue(out.req)
  /\ out.by # 0
  /\ out.text = FailMsg
  /\ out.status = StatusOK

\* C6: a reply that hands a value to sender A hands out what a task started
\* for A stored, and the entries of A change only in a step of a "continue"
\* handler for A or of a task started for A.
C6_NoCrossContamination ==
  /\ [][\A h \in Handlers :
          Hands(h) =>
            /\ out'.by = hs[h].by
            /\ tasks[out'.by].user = out'.req.FromUserName
            /\ tasks[out'.by].stores = 1
            /\ out'.text = tasks[out'.by].response]_vars
  /\ [](\A e \in userResponses : tasks[e.by].user = e.key /\ tasks[e.by].response = e.value)
  /\ [][\A s \in Senders :
          EntriesOf(userResponses', s) # EntriesOf(userResponses, s) =>
            \/ \E h \in Handlers : Hands(h) /\ hs[h].msg.FromUserName = s
            \/ \E t \in TaskIds : Ends(t) /\ tasks[t].user = s]_vars

\* A's answer has just been handed out while B's answer is still in the map
C6_Witness ==
  /\ out.by # 0
  /\ \E e \in userResponses :
       /\ e.key # out.req.FromUserName
       /\ tasks[e.by].user = e.key

\* C7: the map never holds two entries for one sender; when a task stores,
\* the sender's entry is the value of that task, so of two finished tasks the
\* one whose Store completed last is the one in the map; the value it
\* replaced, unless a handler had already taken it, is in no entry and in no
\* handler from then on; and the handler that takes the sender's value takes
\* the entry that is in the map.
C7_LastWriteWins ==
  /\ [](\A s \in Senders : Cardinality(EntriesOf(userResponses, s)) <= 1)
  /\ [][\A t \in TaskIds :
          Ends(t) =>
            EntriesOf(userResponses', tasks[t].user) =
              { [key |-> tasks[t].user, value |-> tasks'[t].response, by |-> t] }]_vars
  /\ [][\A t \in TaskIds : \A e \in userResponses :
          (Ends(t) /\ e.key = tasks[t].user
             /\ \A h \in Handlers : ~(hs[h].pc = "loaded" /\ hs[h].by = e.by)) =>
            /\ \A f \in userResponses' : f.by # e.by
            /\ \A h \in Handlers : ~(hs'[h].pc = "loaded" /\ hs'[h].by = e.by)]_vars
  /\ [][\A h \in Handlers :
          Takes(h) =>
            [key |-> hs'[h].msg.FromUserName, value |-> hs'[h].cached, by |-> hs'[h].by]
              \in userResponses]_vars

\* two tasks of one sender have finished; the map holds the value of one and
\* the other's value is nowhere
C7_Witness ==
  \E t \in TaskIds : \E u \in TaskIds :
    /\ t # u
    /\ tasks[t].pc = "done" /\ tasks[u].pc = "done"
    /\ tasks[t].user = tasks[u].user
    /\ ~tasks[t].delivered /\ ~tasks[u].delivered
    /\ \E e \in userResponses : e.by = t
    /\ \A e \in userResponses : e.by # u
    /\ \A h \in Handlers : hs[h].pc # "loaded"

\* C8: a question is always answered with the placeholder; neither starting
\* the task nor replying after the sleep reads or changes the map, so an
\* answer stored during the sleep is still there after the reply.
C8_AlwaysPlaceholder ==
  /\ [][AsksQuestion(out'.req) => out'.text = Placeholder /\ out'.by = 0]_vars
  /\ [][\A h \in Handlers :
          (hs[h].pc = "idle" /\ hs'[h].pc = "sleeping") =>
            userResponses' = userResponses /\ out' = NoOut]_vars
  /\ [][\A h \in Handlers :
          (hs[h].pc = "sleeping" /\ hs'[h].pc = "idle") =>
            /\ out'.req = hs[h].msg
            /\ out'.text = Placeholder
            /\ out'.status = StatusOK
            /\ userResponses' = userResponses]_vars

\* the placeholder was sent although the answer had landed, and it is still there
C8_Witness ==
  /\ AsksQuestion(out.req)
  /\ out.text = Placeholder
  /\ \E e \in userResponses : e.by = out.task /\ e.key = out.req.FromUserName

\* C9: a subscribe event is answered with the greeting, and the step changes
\* no entry of the map, starts no task and leaves every handler as it was.
C9_SubscribeGreets ==
  [][(out'.req.MsgType = "event" /\ out'.req.Event = "subscribe") =>
       /\ out'.text = Greeting
       /\ out'.status = StatusOK
       /\ userResponses' = userResponses
       /\ tasks' = tasks
       /\ hs' = hs]_vars

\* the greeting was sent to a sender whose answer is waiting in the map
C9_Witness ==
  /\ out.req.MsgType = "event" /\ out.req.Event = "subscribe"
  /\ out.text = Greeting
  /\ EntriesOf(userResponses, out.req.FromUserName) # {}

\* C10 as stated: every parsed message that is neither a subscribe event nor
\* text is answered with the unsupported-content text.
C10_OtherKindsUnsupported ==
  (out.req # NoMsg /\ out.req.MsgType # "text"
     /\ ~(out.req.MsgType = "event" /\ out.req.Event = "subscribe"))
    => out.text = Unsupported

\* C10 amended: a message whose type is neither "event" nor "text" is
\* answered with the unsupported-content text, an event other than subscribe
\* with the fixed event-received text; either way the step changes no entry
\* of the map, starts no task and leaves every handler as it was.
C10_OtherKindsFixedReply ==
  [][/\ (out'.req # NoMsg /\ out'.req.MsgType \notin {"event", "text"}) =>
          /\ out'.text = Unsupported
          /\ out'.status = StatusOK
          /\ userResponses' = userResponses /\ tasks' = tasks /\ hs' = hs
     /\ (out'.req.MsgType = "event" /\ out'.req.Event # "subscribe") =>
          /\ out'.text = EventAck
          /\ out'.status = StatusOK
          /\ userResponses' = userResponses /\ tasks' = tasks /\ hs' = hs]_vars

\* an event other than subscribe was answered while an answer was waiting
C10_Witness ==
  /\ out.req.MsgType = "event" /\ out.req.Event = "unsubscribe"
  /\ out.text = EventAck
  /\ userResponses # {}

\* ------------------------------------------------------------------- C11
\* the three strings in an order in which none is less than the one before
InOrder(a, b, c) ==
  CHOOSE p \in { <<a, b, c>>, <<a, c, b>>, <<b, a, c>>,
                 <<b, c, a>>, <<c, a, b>>, <<c, b, a>> } :
    ~StrLess(p[2], p[1]) /\ ~StrLess(p[3], p[2])

\* H(sorted concatenation of T, TS, N)
ExpectedSignature(T, TS, N) ==
  LET p == InOrder(T, TS, N) IN Sha1Hex(p[1] \o p[2] \o p[3])

Answered == get.status # 0

Echoed == get.status = StatusOK /\ get.body = get.echostr

Refused == get.status = StatusForbidden /\ get.body = ForbiddenText

SignatureMatches ==
  get.signature = ExpectedSignature(get.token, get.timestamp, get.nonce)

\* C11 as stated: for every token, timestamp, nonce and signature the GET
\* handler echoes when the signature equals H(sorted concatenation), refuses
\* on a mismatch, and refuses everything when the configured token is empty.
C11_HandshakeAnyParameters ==
  Answered =>
    IF get.token = <<>> THEN Refused
    ELSE IF SignatureMatches THEN Echoed ELSE Refused

\* C11 amended: the handler echoes when token, timestamp and nonce are all
\* non-empty and the signature equals H(sorted concatenation); it refuses on
\* a mismatch and whenever the token, the timestamp or the nonce is empty.
C11_HandshakeNonEmptyParameters ==
  Answered =>
    IF get.token = <<>> \/ get.timestamp = <<>> \/ get.nonce = <<>> THEN Refused
    ELSE IF SignatureMatches THEN Echoed ELSE Refused

\* a handshake that succeeded where sorting changed the order of the strings
C11_Witness ==
  /\ Echoed
  /\ get.echostr \in Echos
  /\ Join(<<get.token, get.timestamp, get.nonce>>)
       # Join(SortStrings(<<get.token, get.timestamp, get.nonce>>))

\* ------------------------------------------------------------------- C12
\* every text handleMessage can put into a reply to a parsed message
ReplyTexts ==
  { Greeting, EventAck, NoPending, Placeholder, Unsupported, FailMsg, NoResp }
  \cup { up.choices[1] : up \in { u \in Upstream : Len(u.choices) > 0 } }

\* C12: a POST whose body parsed is answered with the success status and one
\* reply text, whatever its kind, the cache state and the completion
\* outcomes; a response with another status answers a body that did not
\* parse, and that step writes the bad-request response, starts no task and
\* leaves the cache and the handlers as they were.
C12_OnlyBadBodiesFail ==
  /\ [](out.req # NoMsg => ~out.bad /\ out.status = StatusOK /\ out.text \in ReplyTexts)
  /\ [](out.status \notin {0, StatusOK} => out.bad)
  /\ [][out'.bad =>
          /\ out'.status = StatusBadRequest
          /\ out'.text = BadRequestText
          /\ out'.req = NoMsg
          /\ UNCHANGED <<userResponses, tasks, hs>>]_vars

\* a bad request answered while an answer is cached and a goroutine runs
C12_Witness ==
  /\ out.bad
  /\ out.status = StatusBadRequest
  /\ userResponses # {}
  /\ \E t \in TaskIds : tasks[t].pc = "calling"

\* ------------------------------------------------------------------- C13
\* C13: with no assumption that a completion call ever returns, every handler
\* gets to its reply (a question's handler after its sleep, a keyword's
\* handler after its Load); and whatever goroutines are in flight, a free
\* handler can take a keyword request of any sender at once and a question
\* as soon as a goroutine can be started.
C13_HandlersNeverWait ==
  /\ \A h \in Handlers : []<>(hs[h].pc = "idle")
  /\ [](\A h \in Handlers :
          /\ hs[h].pc = "sleeping" => ENABLED DispatchReply(h)
          /\ hs[h].pc = "loaded" => ENABLED ContinueDelete(h)
          /\ Free(h) =>
               \A msg \in Messages :
                 /\ AsksContinue(msg) =>
                      ENABLED (ContinueMiss(h, msg) \/ ContinueLoad(h, msg))
                 /\ AsksQuestion(msg) /\ (\E t \in TaskIds : tasks[t].pc = "free") =>
                      ENABLED Dispatch(h, msg))

\* the placeholder went out while the goroutine of that question is still in
\* its completion call
C13_Witness ==
  /\ out.text = Placeholder
  /\ out.task # 0
  /\ tasks[out.task].pc = "calling"

\* ------------------------------------------------------------------- C14
\* C14: the entry of a sender appears or changes only in the step in which a
\* goroutine started for that sender ends, and is then that goroutine's
\* value; it disappears only in the step in which a handler of a keyword
\* request from that sender replies; through every other step (bad
\* requests, events, other kinds, new questions, other senders' requests,
\* goroutines of other senders) an entry that exists stays as it is.
C14_EntryLifecycle ==
  [][\A s \in Senders :
       LET old == EntriesOf(userResponses, s)
           new == EntriesOf(userResponses', s)
           stored == \E t \in TaskIds :
                       /\ Ends(t)
                       /\ tasks[t].user = s
                       /\ new = { [key |-> s, value |-> tasks'[t].response, by |-> t] }
           cleared == \E h \in Handlers :
                        /\ Hands(h)
                        /\ hs[h].msg.FromUserName = s
                        /\ AsksContinue(hs[h].msg)
                        /\ out'.req = hs[h].msg
       IN /\ new # {} /\ new # old => stored
          /\ old # {} /\ new = {} => cleared
          /\ old # {} /\ ~stored /\ ~cleared => new = old]_vars

\* the placeholder for a new question of a sender went out and the answer to
\* that sender's earlier question is still in the map
C14_Witness ==
  /\ out.text = Placeholder
  /\ \E e \in userResponses : e.key = out.req.FromUserName /\ e.by # out.task

\* ------------------------------------------------------------------- C15
\* the value the claim assigns to the outcome of the completion call
OutcomeValue ==
  IF upstream.kind \in {"requestErr", "transportErr", "badJson"} THEN FailMsg
  ELSE IF upstream.choices = <<>> THEN NoResp
  ELSE Head(upstream.choices)

\* C15: what a goroutine stores is fixed by the outcome of its completion
\* call: the failure text when the call failed or its body did not parse,
\* the "no response" text when the body parsed and lists no choice, the text
\* of the first choice otherwise; the map never holds another value.
C15_StoredValueByOutcome ==
  /\ [](\A e \in userResponses : e.value = OutcomeValue)
  /\ [][\A t \in TaskIds :
          Ends(t) =>
            /\ tasks'[t].stores = 1
            /\ EntriesOf(userResponses', tasks[t].user)
                 = { [key |-> tasks[t].user, value |-> OutcomeValue, by |-> t] }]_vars

\* a body that parsed and lists no choice was answered with the "no response"
\* text, and that text is in the map
C15_Witness ==
  /\ upstream \in Upstream
  /\ upstream.kind = "json"
  /\ upstream.choices = <<>>
  /\ \E e \in userResponses : e.value = NoResp /\ tasks[e.by].err = FALSE

\* ------------------------------------------------------------------- C16
\* the step in which goroutine t is started
Starts(t) == tasks[t].pc # "calling" /\ tasks'[t].pc = "calling"

\* the step in which handler h takes up a request it answers in a later step
Accepts(h) == hs[h].pc = "idle" /\ hs'[h].pc # "idle"

\* C16: the step that takes up a question starts exactly one goroutine, for
\* that sender and that content; no goroutine starts in any other step, so
\* none for a keyword (with or without surrounding whitespace), an event,
\* another kind or a bad request; a question is answered only by the handler
\* that started its goroutine; a goroutine makes its call once: it ends in
\* one step with one Store and never runs again.  Stores for a sender are
\* therefore matched one to one with goroutines and goroutines with that
\* sender's questions.
C16_OneTaskPerQuestion ==
  /\ [][\A h \in Handlers :
          Accepts(h) /\ AsksQuestion(hs'[h].msg) =>
            /\ Cardinality({ t \in TaskIds : Starts(t) }) = 1
            /\ Starts(hs'[h].task)
            /\ tasks'[hs'[h].task].user = hs'[h].msg.FromUserName
            /\ tasks'[hs'[h].task].query = hs'[h].msg.Content
            /\ tasks'[hs'[h].task].stores = 0]_vars
  /\ [][\A t \in TaskIds :
          Starts(t) =>
            /\ out' = NoOut
            /\ Cardinality({ h \in Handlers : Accepts(h) }) = 1
            /\ \E h \in Handlers :
                 Accepts(h) /\ AsksQuestion(hs'[h].msg) /\ hs'[h].task = t]_vars
  /\ [][out'.req # NoMsg /\ AsksQuestion(out'.req) =>
          \E h \in Handlers :
            hs[h].pc = "sleeping" /\ hs[h].msg = out'.req /\ hs[h].task = out'.task]_vars
  /\ [][\A t \in TaskIds :
          /\ tasks[t].pc = "calling" /\ tasks'[t] # tasks[t] => Ends(t)
          /\ tasks[t].pc = "done" => tasks'[t].pc # "calling"
          /\ tasks'[t].stores # tasks[t].stores /\ tasks'[t].pc # "free" =>
               Ends(t) /\ tasks'[t].stores = 1]_vars
  /\ [][\A s \in Senders :
          LET new == EntriesOf(userResponses', s)
          IN new # {} /\ new # EntriesOf(userResponses, s) =>
               Cardinality({ t \in TaskIds : Ends(t) /\ tasks[t].user = s }) = 1]_vars

\* a keyword with surrounding whitespace was answered with no goroutine of
\* its sender around, while another sender's question has its one goroutine
C16_Witness ==
  /\ out.req.MsgType = "text"
  /\ out.req.Content = <<" ", "ji", "xu", "\n">>
  /\ \A t \in TaskIds : tasks[t].user # out.req.FromUserName
  /\ \E h \in Handlers :
       /\ hs[h].pc = "sleeping"
       /\ AsksQuestion(hs[h].msg)
       /\ Cardinality({ t \in TaskIds : tasks[t].pc # "free" }) = 1

\* ------------------------------------------------------------------- C17
\* C17: whenever the handler of a keyword request from S replies, every
\* entry its Delete removed from the map held the value that this reply
\* carries; no value stored for S leaves the map without being the reply.
C17_DeletedIsDelivered ==
  [][\A h \in Handlers :
       Hands(h) =>
         \A e \in userResponses :
           e.key = hs[h].msg.FromUserName /\ e \notin userResponses' =>
             /\ out'.req = hs[h].msg
             /\ out'.text = e.value]_vars

====
